---- MODULE Spec2Model ----
(***************************************************************************)
(* A model of the three harvesting scripts of lit-research-api-scraper:    *)
(*   - ScienceDirect_retrieval_woAbs.py      (the search run)              *)
(*   - ScienceDirect_retrieval_abs_on_doi.py (the enrichment run)          *)
(*   - Springer_retrieval.py                 (the Springer retrieval run)  *)
(* One behaviour is one run of one script (variable script).  The server   *)
(* is the environment: every HTTP request is answered by a response drawn  *)
(* from a small set.  One action is one HTTP request together with all the *)
(* code the script runs until it issues the next request.                  *)
(* Durations are in tenths of a second.                                    *)
(***************************************************************************)
EXTENDS Integers, Sequences, FiniteSets, TLC

VARIABLES
  script,                 \* which script this behaviour runs
  pc,                     \* position of the script
  SHOW,                   \* page size (woAbs:16, Springer page_size:62)
  MAX_RESULTS_PER_QUERY,  \* per-query cap (woAbs:17)
  groups,                 \* <<group_A, group_B, group_C>> (woAbs:32-59)
  processed_queries,      \* woAbs:85
  all_results,            \* woAbs:82
  seen_dois,              \* woAbs:83
  empty_streak,           \* woAbs:86
  total_results,          \* woAbs:99, Springer number_results_total:102
  offset,                 \* woAbs:123, Springer current_record:116
  req,                    \* the HTTP request issued last
  attempts,               \* HTTP requests issued by the current (or last) client call
  n429,                   \* 429 responses received by the current (or last) client call
  lastStatus,             \* status of the response received last (0: network failure)
  lastRetryAfter,         \* Retry-After header of the response received last (0: absent)
  callResult,             \* what the last client call returned: "body", "none", "raised"; "pending" inside a call
  sleeps,                 \* durations slept since the last HTTP request was issued
  fetched,                \* offsets of the page fetches issued for the current query
  terminal_reason,        \* why the current query ended, "running" until it does
  firstSeen,              \* per DOI, the first record a successful page delivered with it
  probe_empty,            \* per query with a usable probe, in query order: did it report a total of 0
  lastPage,               \* the records the last HTTP exchange delivered as a page, if it did
  saved,                  \* content of the output file, NotWritten before the save (see written)
  written,                \* whether the output file has been written
  original_data,          \* abs_on_doi:53
  dois,                   \* abs_on_doi:56
  idx,                    \* abs_on_doi:62, position in dois
  merged_results,         \* abs_on_doi:59
  log_entries,            \* abs_on_doi:60
  retries,                \* abs_on_doi:35
  lookups,                \* the DOIs get_metadata_by_doi was called with, in call order
  lastBody,               \* the body the last call of get_metadata_by_doi returned, if it returned one
  search_results,         \* Springer:59
  api_calls               \* Springer:66

searchVars == <<SHOW, MAX_RESULTS_PER_QUERY, groups, processed_queries, all_results,
                seen_dois, empty_streak, total_results, offset>>
httpVars == <<req, attempts, n429, lastStatus, lastRetryAfter, callResult, sleeps>>
ghostVars == <<fetched, terminal_reason, firstSeen, probe_empty, lastPage>>
enrichVars == <<original_data, dois, idx, merged_results, log_entries, retries,
               lookups, lastBody>>
springerVars == <<search_results, api_calls>>
vars == <<script, pc, searchVars, httpVars, ghostVars, saved, written, enrichVars,
         springerVars>>

----------------------------------------------------------------------------
(* Bounds of the model *)

\* most 429 responses the server gives to one make_request call
Max429 == 2
\* most records in one page of a response
MaxPageLen == 2
\* largest cap drawn below, besides the spec's example value
MaxCap == 3
\* largest total a probe reports, besides the spec's example values
MaxTotal == 4
\* most records in the enrichment input
MaxInput == 3
\* most entries in the answer to one lookup
MaxEntries == 2
\* most terms of one group in the runs that only expand the queries
MaxGroup == 2

----------------------------------------------------------------------------
(* Program constants *)

\* woAbs:18, SLEEP_BASE = 0.7 s
SLEEP_BASE == 7
\* abs_on_doi:21, SLEEP_BASE = 0.8 s
SLEEP_BASE_DOI == 8
\* abs_on_doi:22
MAX_RETRIES == 3
\* woAbs:73, abs_on_doi:41: Retry-After default, 30 s
DEFAULT_RETRY_AFTER == 300

----------------------------------------------------------------------------
(* Values *)

None == "None"
\* the content of an output file that was not written: none
NotWritten == <<>>

\* Python truthiness of item.get("doi"): an absent key (None) and "" are falsy
Truthy(doi) == doi # None /\ doi # ""

Dois == {"10.1/a", "10.1/b"}
DoiValues == Dois \cup {None, ""}
\* records: one DOI comes with two contents, so that duplicates can differ
Items ==
  {[doi |-> d, content |-> 1] : d \in DoiValues} \cup {[doi |-> "10.1/a", content |-> 2]}

RECURSIVE SeqsUpTo(_, _)
SeqsUpTo(S, n) ==
  IF n = 0 THEN {<<>>}
  ELSE LET shorter == SeqsUpTo(S, n - 1)
       IN  shorter \cup {Append(s, x) : s \in {t \in shorter : Len(t) = n - 1}, x \in S}

Range(s) == {s[i] : i \in DOMAIN s}

\* HTTP statuses the server answers with; 0 stands for a network failure
\* (requests raises RequestException and there is no response)
NetworkFailure == 0
Statuses == {NetworkFailure, 200, 429, 500}

\* the Retry-After header of a 429 response in seconds; 0: the header is absent
RetryAfterHeaders == {0, 5}

NoReq == [kind |-> "none", query |-> <<>>, offset |-> 0, show |-> 0]

----------------------------------------------------------------------------
(* The server's answers *)

\* page sizes and caps: small ones, and those of the pagination example
\* (total 120, page size 25, cap 50)
Configs == {1, 2} \X (1..MaxCap)
ExampleConfig == <<25, 50>>
TotalValues == (0..MaxTotal) \cup {120}

\* a JSON body of the search API: hasResults is '"results" in body';
\* resultsFound and totalResults are 0 when the key is absent
EmptyBody == [hasResults |-> FALSE, resultsFound |-> 0, totalResults |-> 0, results |-> <<>>]

ProbeBodies ==
  {EmptyBody} \cup
  [hasResults : {TRUE}, resultsFound : TotalValues, totalResults : {0, 2},
   results : {<<>>, <<[doi |-> "10.1/a", content |-> 1]>>}]

Min(a, b) == IF a < b THEN a ELSE b

\* a page holds at most show records
PageBodies(show) ==
  {EmptyBody} \cup
  [hasResults : {TRUE}, resultsFound : {0}, totalResults : {0},
   results : SeqsUpTo(Items, Min(show, MaxPageLen))]

Response(s, h, b) == [status |-> s, retryAfter |-> h, body |-> b]

\* the responses a request can get: a 200 with one of the bodies, a 429 with
\* or without Retry-After, another status, or no response (network failure)
Responses(bodies) ==
  {Response(200, 0, b) : b \in bodies}
    \cup {Response(429, h, EmptyBody) : h \in RetryAfterHeaders}
    \cup {Response(s, 0, EmptyBody) : s \in Statuses \ {200, 429}}

\* int(response.headers.get("Retry-After", 30)), in tenths of a second
RetryAfter(resp) ==
  IF resp.retryAfter = 0 THEN DEFAULT_RETRY_AFTER ELSE resp.retryAfter * 10

----------------------------------------------------------------------------
(* ScienceDirect_retrieval_woAbs.py *)

\* woAbs:32-59
group_A == <<"responsible AI", "trustworthy AI", "ethical AI", "explainable AI">>
group_B == <<"cyber-physical systems", "manufacturing", "Industry 4.0", "smart factory",
             "production system", "Industrial AI">>
group_C == <<"value-based engineering", "value integration", "value-driven design",
             "value-sensitive design", "design for values", "ethics by design",
             "responsible design", "system design", "design methodology",
             "design process">>

\* the product that lets its first argument vary fastest
ProductFirstFastest(gA, gB, gC) ==
  [n \in 1..(Len(gA) * Len(gB) * Len(gC)) |->
     <<gA[((n - 1) % Len(gA)) + 1],
       gB[(((n - 1) \div Len(gA)) % Len(gB)) + 1],
       gC[((n - 1) \div (Len(gA) * Len(gB))) + 1]>>]

\* itertools.product(group_A, group_B, group_C), as the nested loops it stands for
RECURSIVE ProductC(_, _, _)
ProductC(a, b, gC) ==
  IF gC = <<>> THEN <<>> ELSE <<<<a, b, Head(gC)>>>> \o ProductC(a, b, Tail(gC))

RECURSIVE ProductB(_, _, _)
ProductB(a, gB, gC) ==
  IF gB = <<>> THEN <<>> ELSE ProductC(a, Head(gB), gC) \o ProductB(a, Tail(gB), gC)

RECURSIVE Product(_, _, _)
Product(gA, gB, gC) ==
  IF gA = <<>> THEN <<>> ELSE ProductB(Head(gA), gB, gC) \o Product(Tail(gA), gB, gC)

\* f"\"{a}\" AND \"{b}\" AND \"{c}\"", as its tokens
QueryString(t) == <<"\"", t[1], "\"", " AND ", "\"", t[2], "\"", " AND ", "\"", t[3], "\"">>

\* len(group_A) * len(group_B) * len(group_C)
total_queries == Len(groups[1]) * Len(groups[2]) * Len(groups[3])

\* the query of the n-th iteration of the for loop
QueryAt(n) == QueryString(Product(groups[1], groups[2], groups[3])[n])

\* make_request with the bug of going round again on any status but 200
make_request_retrying(resp) ==
  IF resp.status = NetworkFailure THEN "none"
  ELSE IF resp.status = 200 THEN "body"
  ELSE "retry"

\* what one HTTP exchange makes make_request do: return the parsed body,
\* return None, or sleep and call itself again
make_request(resp) ==
  IF resp.status = NetworkFailure THEN "none"
  ELSE IF resp.status = 200 THEN "body"
  ELSE IF resp.status = 429 THEN "retry"
  ELSE "none"

\* 'not data or "results" not in data'
Unusable(result, body) == result = "none" \/ ~body.hasResults

\* check.get("resultsFound") or check.get("totalResults") or len(check["results"])
TotalResults(body) ==
  IF body.resultsFound # 0 THEN body.resultsFound
  ELSE IF body.totalResults # 0 THEN body.totalResults
  ELSE Len(body.results)

\* the test without its look into seen_dois
AcceptsSeen(doi, seen) == Truthy(doi)

\* 'if doi and doi not in seen_dois'
Accepts(doi, seen) == Truthy(doi) /\ doi \notin seen

\* the loop that appends without recording the DOI in seen_dois
RECURSIVE AddItemsForgetful(_, _, _)
AddItemsForgetful(items, results, seen) ==
  IF items = <<>> THEN [all_results |-> results, seen_dois |-> seen]
  ELSE LET item == Head(items)
       IN  IF Accepts(item.doi, seen)
           THEN AddItemsForgetful(Tail(items), Append(results, item), seen)
           ELSE AddItemsForgetful(Tail(items), results, seen)

\* the loop that also appends the records without a DOI
RECURSIVE AddItemsKeepsUnkeyed(_, _, _)
AddItemsKeepsUnkeyed(items, results, seen) ==
  IF items = <<>> THEN [all_results |-> results, seen_dois |-> seen]
  ELSE LET item == Head(items)
       IN  IF ~Truthy(item.doi)
           THEN AddItemsKeepsUnkeyed(Tail(items), Append(results, item), seen)
           ELSE IF Accepts(item.doi, seen)
           THEN AddItemsKeepsUnkeyed(Tail(items), Append(results, item),
                                     seen \cup {item.doi})
           ELSE AddItemsKeepsUnkeyed(Tail(items), results, seen)

\* the loop that puts a new record at the front of the list
RECURSIVE AddItemsInFront(_, _, _)
AddItemsInFront(items, results, seen) ==
  IF items = <<>> THEN [all_results |-> results, seen_dois |-> seen]
  ELSE LET item == Head(items)
       IN  IF Accepts(item.doi, seen)
           THEN AddItemsInFront(Tail(items), <<item>> \o results, seen \cup {item.doi})
           ELSE AddItemsInFront(Tail(items), results, seen)

\* the for loop over the items of one page
RECURSIVE AddItems(_, _, _)
AddItems(items, results, seen) ==
  IF items = <<>> THEN [all_results |-> results, seen_dois |-> seen]
  ELSE LET item == Head(items)
       IN  IF Accepts(item.doi, seen)
           THEN AddItems(Tail(items), Append(results, item), seen \cup {item.doi})
           ELSE AddItems(Tail(items), results, seen)

\* the loop test without the cap
MorePagesUncapped(off, total, cap) == off < total

\* the loop test with <= for the total
MorePagesInclusive(off, total, cap) == off <= total /\ off < cap

\* 'while offset < total_results and offset < MAX_RESULTS_PER_QUERY'
MorePages(off, total, cap) == off < total /\ off < cap

----------------------------------------------------------------------------
(* Bookkeeping of the HTTP exchanges, common to the three scripts *)

InCall == callResult = "pending"

\* the server answers one call with at most Max429 429 responses
MayAnswer(resp) == resp.status = 429 => (IF InCall THEN n429 ELSE 0) < Max429

Exchange(kind, q, off, show, resp, result) ==
  /\ req' = [kind |-> kind, query |-> q, offset |-> off, show |-> show]
  /\ attempts' = IF InCall THEN attempts + 1 ELSE 1
  /\ n429' = (IF InCall THEN n429 ELSE 0) + (IF resp.status = 429 THEN 1 ELSE 0)
  /\ lastStatus' = resp.status
  /\ lastRetryAfter' = resp.retryAfter
  /\ callResult' = result

\* ghost: the first record delivered with each DOI
NoItem == [doi |-> None, content |-> 0]

FirstDelivered(fs, items) ==
  [d \in Dois |->
     IF fs[d] # NoItem THEN fs[d]
     ELSE IF \E i \in DOMAIN items : items[i].doi = d
          THEN items[CHOOSE i \in DOMAIN items :
                       /\ items[i].doi = d
                       /\ \A j \in DOMAIN items : items[j].doi = d => i <= j]
          ELSE NoItem]

Delivered(items) ==
  /\ firstSeen' = FirstDelivered(firstSeen, items)
  /\ lastPage' = items

\* the term groups of a run: the sizes vary, the terms are the script's
OneQuery == << <<"responsible AI">>, <<"manufacturing">>, <<"system design">> >>
TwoQueries ==
  << <<"responsible AI", "trustworthy AI">>, <<"manufacturing">>, <<"system design">> >>

\* the runs: <<SHOW, MAX_RESULTS_PER_QUERY, groups>>
Runs ==
  {<<c[1], c[2], g>> : c \in Configs, g \in {OneQuery, TwoQueries}}
    \cup {<<ExampleConfig[1], ExampleConfig[2], OneQuery>>}

\* the for loop goes to its next iteration, or ends
NextQuery(reason) ==
  /\ terminal_reason' = reason
  /\ pc' = "query"

\* the delay that does not grow with the streak
EmptyDelayFlat(streak) == SLEEP_BASE

\* woAbs:105: time.sleep(SLEEP_BASE * empty_streak)
EmptyDelay(streak) == SLEEP_BASE * streak

\* the failed probe that goes on to the first page
ProbeFailedGoesOn ==
  /\ sleeps' = <<>>
  /\ terminal_reason' = "probe_failed"
  /\ pc' = "first_page"
  /\ UNCHANGED <<empty_streak, total_results>>

\* the failed probe that is sent again
ProbeFailedTriesAgain ==
  /\ sleeps' = <<>>
  /\ terminal_reason' = "running"
  /\ pc' = "probe"
  /\ UNCHANGED <<empty_streak, total_results>>

\* woAbs:95-97: the probe gave nothing usable, 'continue'
ProbeFailed ==
  /\ sleeps' = <<>>
  /\ NextQuery("probe_failed")
  /\ UNCHANGED <<empty_streak, total_results>>

\* woAbs:88-109: the next iteration of the for loop up to the probe's answer,
\* or the probe again after a 429
Probe(resp) ==
  /\ script = "search"
  /\ \/ pc = "query" /\ processed_queries < total_queries
     \/ pc = "probe"
  /\ MayAnswer(resp)
  /\ LET n == IF pc = "query" THEN processed_queries + 1 ELSE processed_queries
         check == make_request(resp)
         total == TotalResults(resp.body)
     IN  /\ processed_queries' = n
         /\ fetched' = <<>>
         /\ lastPage' = <<>>
         /\ Exchange("probe", QueryAt(n), 0, 1, resp,
                     IF check = "retry" THEN "pending" ELSE check)
         /\ IF check = "retry"
            THEN /\ sleeps' = <<RetryAfter(resp)>>
                 /\ pc' = "probe"
                 /\ terminal_reason' = "running"
                 /\ UNCHANGED <<empty_streak, total_results, probe_empty>>
            ELSE IF Unusable(check, resp.body)
            THEN ProbeFailed /\ UNCHANGED probe_empty
            ELSE IF total = 0
            THEN /\ sleeps' = <<EmptyDelay(empty_streak + 1)>>
                 /\ empty_streak' = empty_streak + 1
                 /\ total_results' = total
                 /\ probe_empty' = Append(probe_empty, total = 0)
                 /\ NextQuery("empty")
            ELSE /\ sleeps' = <<>>
                 /\ empty_streak' = 0
                 /\ total_results' = total
                 /\ probe_empty' = Append(probe_empty, total = 0)
                 /\ pc' = "first_page"
                 /\ terminal_reason' = "running"
  /\ UNCHANGED <<script, SHOW, MAX_RESULTS_PER_QUERY, groups, all_results, seen_dois,
                 offset, firstSeen, saved, written, enrichVars, springerVars>>

\* the pagination loop's test once a page was taken in, woAbs:124, and the
\* pause between queries when it fails, woAbs:138
AfterPage(off, slept) ==
  IF MorePages(off, total_results, MAX_RESULTS_PER_QUERY)
  THEN /\ sleeps' = slept
       /\ pc' = "page"
       /\ terminal_reason' = "running"
  ELSE /\ sleeps' = Append(slept, SLEEP_BASE)
       /\ NextQuery("complete")

\* woAbs:111-124: the first page (offset 0, show SHOW)
FirstPage(resp) ==
  /\ script = "search"
  /\ pc = "first_page"
  /\ MayAnswer(resp)
  /\ LET data == make_request(resp)
         added == AddItems(resp.body.results, all_results, seen_dois)
     IN  /\ fetched' = IF InCall THEN fetched ELSE Append(fetched, 0)
         /\ Exchange("page", QueryAt(processed_queries), 0, SHOW, resp,
                     IF data = "retry" THEN "pending" ELSE data)
         /\ IF data = "retry"
            THEN /\ sleeps' = <<RetryAfter(resp)>>
                 /\ lastPage' = <<>>
                 /\ UNCHANGED <<pc, terminal_reason, all_results, seen_dois, offset, firstSeen>>
            ELSE IF Unusable(data, resp.body)
            THEN /\ sleeps' = <<>>
                 /\ NextQuery("partial")
                 /\ lastPage' = <<>>
                 /\ UNCHANGED <<all_results, seen_dois, offset, firstSeen>>
            ELSE /\ all_results' = added.all_results
                 /\ seen_dois' = added.seen_dois
                 /\ Delivered(resp.body.results)
                 /\ offset' = SHOW
                 /\ AfterPage(SHOW, <<>>)
  /\ UNCHANGED <<script, SHOW, MAX_RESULTS_PER_QUERY, groups, processed_queries, probe_empty,
                 empty_streak, total_results, saved, written, enrichVars,
                 springerVars>>

\* woAbs:124-138: one iteration of the pagination loop (show defaults to SHOW)
Page(resp) ==
  /\ script = "search"
  /\ pc = "page"
  /\ MayAnswer(resp)
  /\ LET page == make_request(resp)
         added == AddItems(resp.body.results, all_results, seen_dois)
     IN  /\ fetched' = IF InCall THEN fetched ELSE Append(fetched, offset)
         /\ Exchange("page", QueryAt(processed_queries), offset, SHOW, resp,
                     IF page = "retry" THEN "pending" ELSE page)
         /\ IF page = "retry"
            THEN /\ sleeps' = <<RetryAfter(resp)>>
                 /\ lastPage' = <<>>
                 /\ UNCHANGED <<pc, terminal_reason, all_results, seen_dois, offset, firstSeen>>
            ELSE IF Unusable(page, resp.body)
            THEN /\ sleeps' = <<SLEEP_BASE>>
                 /\ NextQuery("partial")
                 /\ lastPage' = <<>>
                 /\ UNCHANGED <<all_results, seen_dois, offset, firstSeen>>
            ELSE /\ all_results' = added.all_results
                 /\ seen_dois' = added.seen_dois
                 /\ Delivered(resp.body.results)
                 /\ offset' = offset + SHOW
                 /\ AfterPage(offset + SHOW, <<SLEEP_BASE>>)
  /\ UNCHANGED <<script, SHOW, MAX_RESULTS_PER_QUERY, groups, processed_queries, probe_empty,
                 empty_streak, total_results, saved, written, enrichVars,
                 springerVars>>

\* woAbs:140-145: the for loop is over, all_results is written
Save ==
  /\ script = "search"
  /\ pc = "query"
  /\ processed_queries = total_queries
  /\ pc' = "done"
  /\ written' = TRUE
  /\ saved' = all_results
  /\ UNCHANGED <<script, searchVars, httpVars, ghostVars, enrichVars, springerVars>>

SearchNext ==
  \/ \E resp \in Responses(ProbeBodies) : Probe(resp)
  \/ \E resp \in Responses(PageBodies(SHOW)) : FirstPage(resp)
  \/ \E resp \in Responses(PageBodies(SHOW)) : Page(resp)
  \/ Save

----------------------------------------------------------------------------
(* ScienceDirect_retrieval_abs_on_doi.py *)

Entries == {"m1", "m2"}

\* a JSON body of the metadata API: hasSearchResults is '"search-results" in
\* body', hasEntry is whether search-results holds the key "entry"
NoMetadataBody == [hasSearchResults |-> FALSE, hasEntry |-> FALSE, entry |-> <<>>]

MetadataBodies ==
  {NoMetadataBody, [hasSearchResults |-> TRUE, hasEntry |-> FALSE, entry |-> <<>>]}
    \cup [hasSearchResults : {TRUE}, hasEntry : {TRUE}, entry : SeqsUpTo(Entries, MaxEntries)]

MetadataResponses ==
  {Response(200, 0, b) : b \in MetadataBodies}
    \cup {Response(429, h, NoMetadataBody) : h \in RetryAfterHeaders}
    \cup {Response(s, 0, NoMetadataBody) : s \in Statuses \ {200, 429}}

\* the sequences that hold every element of S once: the orders in which
\* list(set) can give the elements
Orders(S) ==
  {s \in [1..Cardinality(S) -> S] : \A i, j \in 1..Cardinality(S) : s[i] = s[j] => i = j}

\* {item.get("doi") for item in original_data if item.get("doi")}
UniqueDois(data) == {data[i].doi : i \in {j \in DOMAIN data : Truthy(data[j].doi)}}

\* the keys taken as the list of the DOIs of the records, repeats included
KeyOrdersRepeating(data) ==
  {SelectSeq([i \in DOMAIN data |-> data[i].doi], Truthy)}

\* abs_on_doi:56: list({...}); a set is iterated in an order the language
\* does not fix
KeyOrders(data) == Orders(UniqueDois(data))

\* what one HTTP exchange makes get_metadata_by_doi do, r being retries when
\* the request is sent: requests.get raises, the body is returned, None is
\* returned, or the loop goes round again
get_metadata_by_doi(resp, r) ==
  IF resp.status = NetworkFailure THEN "raised"
  ELSE IF resp.status = 200 THEN "body"
  ELSE IF resp.status = 429
       THEN IF r + 1 < MAX_RETRIES THEN "retry" ELSE "none"
  ELSE "none"

\* next((x for x in original_data if x.get("doi") == doi), None)
OriginalEntry(data, doi) ==
  IF \E i \in DOMAIN data : data[i].doi = doi
  THEN data[CHOOSE i \in DOMAIN data :
              /\ data[i].doi = doi
              /\ \A j \in DOMAIN data : data[j].doi = doi => i <= j]
  ELSE NoItem

\* the outcome that takes an empty entry list for a failed lookup
OutcomeEmptyFails(metadata, body) ==
  IF metadata = "body" /\ body.hasSearchResults /\ body.entry # <<>>
  THEN "SUCCESS" ELSE "FAILED"

\* abs_on_doi:66-87: the outcome of one DOI
Outcome(metadata, body) ==
  IF metadata = "body" /\ body.hasSearchResults
  THEN IF body.entry # <<>> THEN "SUCCESS" ELSE "NO_METADATA"
  ELSE "FAILED"

\* the merge that takes the last entry of the list
CombinedLastEntry(doi, data, body) ==
  [doi |-> doi, original |-> OriginalEntry(data, doi),
   metadata |-> body.entry[Len(body.entry)]]

\* abs_on_doi:75-80
Combined(doi, data, body) ==
  [doi |-> doi, original |-> OriginalEntry(data, doi), metadata |-> body.entry[1]]

\* the merge that passes the original record through when there is no metadata
MergedPassthrough(results, outcome, doi, data, body) ==
  IF outcome = "SUCCESS" THEN Append(results, Combined(doi, data, body))
  ELSE Append(results, [doi |-> doi, original |-> OriginalEntry(data, doi), metadata |-> None])

\* abs_on_doi:66-87: what one DOI adds to merged_results
Merged(results, outcome, doi, data, body) ==
  IF outcome = "SUCCESS" THEN Append(results, Combined(doi, data, body)) ELSE results

\* the delay that follows only the lookups that found metadata
LookupSleepsOnSuccess(outcome, waited) ==
  IF outcome = "SUCCESS" THEN Append(waited, SLEEP_BASE_DOI) ELSE waited

\* abs_on_doi:89: time.sleep(SLEEP_BASE) ends the loop body, after whatever
\* get_metadata_by_doi has slept
LookupSleeps(outcome, waited) == Append(waited, SLEEP_BASE_DOI)

\* abs_on_doi:62-89: one HTTP exchange of the lookup of the next DOI and,
\* when get_metadata_by_doi returns, the rest of the loop body
Lookup(resp) ==
  /\ script = "enrich"
  /\ pc = "lookup"
  /\ idx < Len(dois)
  /\ LET doi == dois[idx + 1]
         r == IF InCall THEN retries ELSE 0
         metadata == get_metadata_by_doi(resp, r)
         outcome == Outcome(metadata, resp.body)
         waited == IF resp.status = 429 THEN <<RetryAfter(resp)>> ELSE <<>>
     IN  /\ Exchange("lookup", <<doi>>, 0, 0, resp,
                     IF metadata = "retry" THEN "pending" ELSE metadata)
         /\ retries' = IF resp.status = 429 THEN r + 1 ELSE r
         /\ lookups' = IF InCall THEN lookups ELSE Append(lookups, doi)
         /\ lastBody' = IF metadata = "body" THEN resp.body ELSE NoMetadataBody
         /\ IF metadata = "retry"
            THEN /\ sleeps' = waited
                 /\ UNCHANGED <<pc, idx, merged_results, log_entries>>
            ELSE IF metadata = "raised"
            THEN /\ sleeps' = <<>>
                 /\ pc' = "crashed"
                 /\ UNCHANGED <<idx, merged_results, log_entries>>
            ELSE /\ sleeps' = LookupSleeps(outcome, waited)
                 /\ merged_results' = Merged(merged_results, outcome, doi, original_data, resp.body)
                 /\ log_entries' = Append(log_entries, <<doi, outcome>>)
                 /\ idx' = idx + 1
                 /\ UNCHANGED pc
  /\ UNCHANGED <<script, searchVars, ghostVars, saved, written, original_data, dois, springerVars>>

\* abs_on_doi:91-96: the loop is over, both files are written
SaveMerged ==
  /\ script = "enrich"
  /\ pc = "lookup"
  /\ idx = Len(dois)
  /\ pc' = "done"
  /\ written' = TRUE
  /\ saved' = [merged |-> merged_results, log |-> log_entries]
  /\ UNCHANGED <<script, searchVars, httpVars, ghostVars, enrichVars, springerVars>>

EnrichNext ==
  \/ \E resp \in MetadataResponses : Lookup(resp)
  \/ SaveMerged

----------------------------------------------------------------------------
(* Springer_retrieval.py *)

SpringerRecords == {"s1", "s2"}

\* a JSON body of the Springer API: hasTotal is whether data['result'][0]['total']
\* can be read, hasRecords is '"records" in data'
NoSpringerBody == [hasTotal |-> FALSE, total |-> 0, hasRecords |-> FALSE, records |-> <<>>]

SpringerBodies(show) ==
  {NoSpringerBody} \cup
  [hasTotal : {TRUE}, total : 0..MaxTotal, hasRecords : {TRUE},
   records : SeqsUpTo(SpringerRecords, Min(show, MaxPageLen))]
    \cup [hasTotal : {TRUE}, total : 0..MaxTotal, hasRecords : {FALSE}, records : {<<>>}]

\* a later page's total is not read
SpringerPageBodies(show) == {b \in SpringerBodies(show) : b.total = 0}

SpringerResponses(bodies) ==
  {Response(200, 0, b) : b \in bodies}
    \cup {Response(s, 0, NoSpringerBody) : s \in Statuses \ {200}}

\* Springer:88-102: what the first exchange does: an exception is raised
\* (by requests.get, by the status check, by reading the total) or the body is used
springer_initial(resp) ==
  IF resp.status = NetworkFailure THEN "raised"
  ELSE IF resp.status # 200 THEN "raised"
  ELSE IF ~resp.body.hasTotal THEN "raised"
  ELSE "body"

\* the later page that leaves the loop on any status but 200
springer_page_stops(resp) ==
  IF resp.status = NetworkFailure THEN "raised"
  ELSE IF resp.status = 200
       THEN IF resp.body.hasRecords /\ resp.body.records # <<>> THEN "body" ELSE "break"
  ELSE "break"

\* Springer:127-150: what the exchange of a later page does: requests.get
\* raises, the records are taken, the loop is left, or the page is skipped
springer_page(resp) ==
  IF resp.status = NetworkFailure THEN "raised"
  ELSE IF resp.status = 200
       THEN IF resp.body.hasRecords /\ resp.body.records # <<>> THEN "body" ELSE "break"
  ELSE "skip"

\* 'while current_record <= number_results_total'
SpringerMore(current_record, total) == current_record <= total

\* Springer:68-116: the first request and what follows it
SpringerInitial(resp) ==
  /\ script = "springer"
  /\ pc = "initial"
  /\ LET first == springer_initial(resp)
     IN  /\ Exchange("springer_initial", <<>>, 1, SHOW, resp, first)
         /\ sleeps' = <<>>
         /\ IF first = "raised"
            THEN /\ pc' = "done"
                 /\ UNCHANGED <<total_results, offset, search_results>>
            ELSE /\ total_results' = resp.body.total
                 /\ search_results' = IF resp.body.hasRecords
                                      THEN search_results \o resp.body.records
                                      ELSE search_results
                 /\ offset' = SHOW + 1
                 /\ pc' = IF SpringerMore(SHOW + 1, resp.body.total) THEN "page" ELSE "save"
  /\ UNCHANGED <<script, SHOW, MAX_RESULTS_PER_QUERY, groups, processed_queries, all_results,
                 seen_dois, empty_streak, ghostVars, saved, written, enrichVars, api_calls>>

\* Springer:118-150: one iteration of the pagination loop
SpringerPage(resp) ==
  /\ script = "springer"
  /\ pc = "page"
  /\ LET page == springer_page(resp)
     IN  /\ Exchange("springer_page", <<>>, offset, SHOW, resp,
                     IF page \in {"break", "skip"} THEN "none" ELSE page)
         /\ sleeps' = <<>>
         /\ IF page = "raised"
            THEN /\ pc' = "done"
                 /\ UNCHANGED <<offset, search_results, api_calls>>
            ELSE /\ api_calls' = api_calls + 1
                 /\ search_results' = IF page = "body"
                                      THEN search_results \o resp.body.records
                                      ELSE search_results
                 /\ IF page = "break"
                    THEN /\ pc' = "save"
                         /\ UNCHANGED offset
                    ELSE /\ offset' = offset + SHOW
                         /\ pc' = IF SpringerMore(offset + SHOW, total_results)
                                  THEN "page" ELSE "save"
  /\ UNCHANGED <<script, SHOW, MAX_RESULTS_PER_QUERY, groups, processed_queries, all_results,
                 seen_dois, empty_streak, total_results, ghostVars, saved, written, enrichVars>>

\* Springer:152-157: 'if search_results:' the results are written
SpringerSave ==
  /\ script = "springer"
  /\ pc = "save"
  /\ pc' = "done"
  /\ written' = (search_results # <<>>)
  /\ saved' = IF search_results # <<>> THEN search_results ELSE saved
  /\ UNCHANGED <<script, searchVars, httpVars, ghostVars, enrichVars, springerVars>>

SpringerNext ==
  \/ \E resp \in SpringerResponses(SpringerBodies(SHOW)) : SpringerInitial(resp)
  \/ \E resp \in SpringerResponses(SpringerPageBodies(SHOW)) : SpringerPage(resp)
  \/ SpringerSave

----------------------------------------------------------------------------
(* Initial states *)

NoHttp ==
  /\ req = NoReq
  /\ attempts = 0
  /\ n429 = 0
  /\ lastStatus = 0
  /\ lastRetryAfter = 0
  /\ callResult = "none"
  /\ sleeps = <<>>

NoSearch ==
  /\ processed_queries = 0
  /\ all_results = <<>>
  /\ seen_dois = {}
  /\ empty_streak = 0
  /\ total_results = 0
  /\ offset = 0
  /\ fetched = <<>>
  /\ terminal_reason = "running"
  /\ firstSeen = [d \in Dois |-> NoItem]
  /\ lastPage = <<>>
  /\ probe_empty = <<>>

NoEnrich ==
  /\ original_data = <<>>
  /\ dois = <<>>
  /\ idx = 0
  /\ merged_results = <<>>
  /\ log_entries = <<>>
  /\ retries = 0
  /\ lookups = <<>>
  /\ lastBody = NoMetadataBody

NoSpringer ==
  /\ search_results = <<>>
  /\ api_calls = 0

\* woAbs:82-86
InitSearch ==
  /\ script = "search"
  /\ pc = "query"
  /\ \E r \in Runs : SHOW = r[1] /\ MAX_RESULTS_PER_QUERY = r[2] /\ groups = r[3]
  /\ NoSearch /\ NoHttp /\ NoEnrich /\ NoSpringer
  /\ saved = NotWritten
  /\ written = FALSE

\* abs_on_doi:52-60: the input file holds any list of records
InitEnrich ==
  /\ script = "enrich"
  /\ pc = "lookup"
  /\ SHOW = 0 /\ MAX_RESULTS_PER_QUERY = 0
  /\ groups = <<>>
  /\ original_data \in SeqsUpTo(Items, MaxInput)
  /\ dois \in KeyOrders(original_data)
  /\ idx = 0
  /\ merged_results = <<>>
  /\ log_entries = <<>>
  /\ retries = 0
  /\ lookups = <<>>
  /\ lastBody = NoMetadataBody
  /\ NoSearch /\ NoHttp /\ NoSpringer
  /\ saved = NotWritten
  /\ written = FALSE

\* Springer:59-66; page_size is 25 in the script and 1 or 2 here
InitSpringer ==
  /\ script = "springer"
  /\ pc = "initial"
  /\ SHOW \in {1, 2}
  /\ MAX_RESULTS_PER_QUERY = 0
  /\ groups = <<>>
  /\ NoSearch /\ NoHttp /\ NoEnrich /\ NoSpringer
  /\ saved = NotWritten
  /\ written = FALSE

\* woAbs:16-59, 82-86: the search run with the first terms of the script's
\* groups, up to MaxGroup of each
GroupChoices ==
  {<<SubSeq(group_A, 1, i), SubSeq(group_B, 1, j), SubSeq(group_C, 1, k)>> :
     i \in 1..MaxGroup, j \in 1..MaxGroup, k \in 1..MaxGroup}

InitQueries ==
  /\ script = "search"
  /\ pc = "query"
  /\ SHOW = 25
  /\ MAX_RESULTS_PER_QUERY = 500
  /\ groups \in GroupChoices
  /\ NoSearch /\ NoHttp /\ NoEnrich /\ NoSpringer
  /\ saved = NotWritten
  /\ written = FALSE

\* a server on which no query finds anything: every probe fails or reports
\* a total of 0
QuietProbes ==
  {resp \in Responses(ProbeBodies) :
     resp.status = 200 => (~resp.body.hasResults \/ TotalResults(resp.body) = 0)}

\* woAbs:88-145 on that server: the for loop over the queries, and the save
QueriesNext ==
  \/ \E resp \in QuietProbes : Probe(resp)
  \/ Save

Init == InitSearch \/ InitEnrich \/ InitSpringer
Next == SearchNext \/ EnrichNext \/ SpringerNext
Spec == Init /\ [][Next]_vars
SpecQueries == InitQueries /\ [][QueriesNext]_vars

\* the two harvesting runs, woAbs:82-145 and Springer:59-157, as they are
\* scheduled: the script is one thread that runs on, and every request it
\* issues is answered (a network failure is an answer too), so a run never
\* stays for ever in a state in which it has a step to take.  Whether a
\* run ends does not depend on the records of the pages: the server of
\* these runs gives every status and every total, and pages that hold no
\* record or one given record.
InitHarvest == InitSearch \/ InitSpringer

LeanPages ==
  {b \in PageBodies(1) : b.results \in {<<>>, <<[doi |-> "10.1/a", content |-> 1]>>}}

LeanSpringerBodies ==
  {b \in SpringerBodies(1) : b.records \in {<<>>, <<"s1">>}}

HarvestNext ==
  \/ \E resp \in Responses(ProbeBodies) : Probe(resp)
  \/ \E resp \in Responses(LeanPages) : FirstPage(resp)
  \/ \E resp \in Responses(LeanPages) : Page(resp)
  \/ Save
  \/ \E resp \in SpringerResponses(LeanSpringerBodies) : SpringerInitial(resp)
  \/ \E resp \in SpringerResponses({b \in LeanSpringerBodies : b.total = 0}) :
        SpringerPage(resp)
  \/ SpringerSave

\* every step of a run moves pc or issues a request
stepVars == <<pc, searchVars, httpVars, ghostVars, springerVars>>
SpecHarvest == InitHarvest /\ [][HarvestNext]_vars /\ WF_stepVars(HarvestNext)

----------------------------------------------------------------------------
(* Properties *)

DoisOf(records) == [i \in DOMAIN records |-> records[i].doi]

\* C1: at every point of the search run all_results holds at most one record
\* per DOI, and the record it holds for a DOI is the first one a page
\* delivered with that DOI, whatever the content of the later ones.
C1_FirstRecordPerDoi ==
  script = "search" =>
    /\ \A i, j \in DOMAIN all_results :
         all_results[i].doi = all_results[j].doi => i = j
    /\ \A i \in DOMAIN all_results :
         /\ all_results[i].doi \in Dois
         /\ all_results[i] = firstSeen[all_results[i].doi]
    /\ \A d \in Dois : firstSeen[d] # NoItem => firstSeen[d] \in Range(all_results)

\* a page has just delivered a record whose DOI was first delivered with
\* another content, and the first one is the one kept
C1_Witness ==
  /\ script = "search"
  /\ \E i \in DOMAIN lastPage :
       /\ lastPage[i].doi \in Dois
       /\ firstSeen[lastPage[i].doi] # lastPage[i]
       /\ firstSeen[lastPage[i].doi] \in Range(all_results)
       /\ lastPage[i] \notin Range(all_results)

\* C2: every record without DOI (absent or empty) that a successful page
\* delivers is kept in all_results.
C2_UnkeyedKept ==
  script = "search" =>
    \A i \in DOMAIN lastPage :
      ~Truthy(lastPage[i].doi) => lastPage[i] \in Range(all_results)

\* C3: a client call (make_request, get_metadata_by_doi) never returns a
\* failure on a 429: it waits and asks again until the answer is another one.
C3_RateLimitNeverFails ==
  (script \in {"search", "enrich"} /\ callResult = "none") => lastStatus # 429

C5_NoRequestAbortsRun == callResult # "raised"

\* the offsets 0, show, 2*show, ... below both the total and the cap
ExpectedOffsets(total, show, cap) ==
  LET n == Cardinality({k \in 0..Min(total, cap) : k * show < total /\ k * show < cap})
  IN  [i \in 1..n |-> (i - 1) * show]

IsPrefix(s, t) == Len(s) <= Len(t) /\ s = SubSeq(t, 1, Len(s))

\* C6: the page fetches of a query whose fetches all succeed are those at the
\* offsets 0, SHOW, 2*SHOW, ... below both the reported total and the cap, in
\* increasing order and each once.
C6_PageOffsets ==
  script = "search" =>
    /\ terminal_reason = "complete" =>
         /\ total_results >= 1
         /\ fetched = ExpectedOffsets(total_results, SHOW, MAX_RESULTS_PER_QUERY)
    /\ terminal_reason \in {"running", "partial"} /\ pc # "probe" /\ pc # "query" =>
         IsPrefix(fetched, ExpectedOffsets(total_results, SHOW, MAX_RESULTS_PER_QUERY))

\* total 120, page size 25, cap 50: exactly the fetches at 0 and 25
C6_Example ==
  /\ script = "search"
  /\ terminal_reason = "complete"
  /\ total_results = 120
  /\ SHOW = 25
  /\ MAX_RESULTS_PER_QUERY = 50
  /\ fetched = <<0, 25>>

\* C7, as amended: a failed page fetch of a ScienceDirect query ends the
\* pagination of that query (what follows is the probe of the next query, or
\* the save) and leaves all_results as it was; a later page that the Springer
\* API answers with a status other than 200 is skipped: search_results is
\* left as it was and the page at the next offset is requested while that
\* offset is within the total.
C7_FailedPage ==
  [][/\ (script = "search" /\ terminal_reason # "partial" /\ terminal_reason' = "partial") =>
          (all_results' = all_results /\ pc' = "query")
     /\ (script = "search" /\ terminal_reason = "partial") =>
          \/ pc' = "done" /\ saved' = all_results
          \/ req'.kind = "probe" /\ processed_queries' = processed_queries + 1
     /\ (script = "springer" /\ pc = "page" /\ lastStatus' \notin {NetworkFailure, 200}) =>
          /\ search_results' = search_results
          /\ req'.offset = offset
          /\ offset' = offset + SHOW
          /\ pc' = IF offset' <= total_results THEN "page" ELSE "save"]_vars

\* the Springer loop is about to request the next page after a page that failed
C7_SpringerSkips ==
  /\ script = "springer"
  /\ pc = "page"
  /\ req.kind = "springer_page"
  /\ lastStatus = 500
  /\ search_results # <<>>

\* C7, as claimed: after a failed page fetch no further page is requested,
\* in the ScienceDirect paginator and in the Springer paginator.
C7_PageFailureStops ==
  /\ (script = "search" /\ terminal_reason = "partial") => pc \notin {"first_page", "page"}
  /\ (script = "springer" /\ req.kind = "springer_page" /\ lastStatus # 200) => pc # "page"

\* C8: a probe that fails, or whose body has no results list, issues no page
\* fetch for its query and leaves all_results and seen_dois as they were; the
\* next query of the expansion is probed next, or the run saves when there is
\* none.
C8_ProbeFailure ==
  [][/\ (script = "search" /\ pc \in {"query", "probe"} /\ pc' # "done"
           /\ terminal_reason' = "probe_failed") =>
          /\ all_results' = all_results
          /\ seen_dois' = seen_dois
          /\ fetched' = <<>>
          /\ pc' = "query"
     /\ (script = "search" /\ terminal_reason = "probe_failed") =>
          \/ /\ processed_queries = total_queries
             /\ pc' = "done"
          \/ /\ processed_queries < total_queries
             /\ req'.kind = "probe"
             /\ req'.query = QueryAt(processed_queries + 1)
             /\ fetched' = <<>>]_vars

\* the probe of the first of two queries has failed
C8_Witness ==
  /\ script = "search"
  /\ terminal_reason = "probe_failed"
  /\ processed_queries = 1
  /\ total_queries = 2
  /\ lastStatus = 500

\* C9: a page fetch that succeeded is followed by a delay before the next
\* page of the same query is requested.
C9_DelayBetweenPages ==
  (script = "search" /\ pc = "page" /\ req.kind = "page" /\ callResult = "body") =>
    SLEEP_BASE \in Range(sleeps)

\* the DOIs whose log line says SUCCESS, in the order of the log
SuccessDois(log) ==
  LET ok == SelectSeq(log, LAMBDA e : e[2] = "SUCCESS")
  IN  [i \in DOMAIN ok |-> ok[i][1]]

\* C10, as amended: the enrichment output holds exactly one element per
\* unique input DOI whose lookup succeeded with an entry list that is not
\* empty, in key-iteration order; a DOI whose lookup failed or returned no
\* entry adds no element.
C10_MergedOnlySuccess ==
  script = "enrich" =>
    /\ [i \in DOMAIN log_entries |-> log_entries[i][1]] = SubSeq(dois, 1, idx)
    /\ DoisOf(merged_results) = SuccessDois(log_entries)
    /\ pc = "done" => (idx = Len(dois) /\ saved.merged = merged_results)

\* keys {A, B}, lookup(A) gives an entry and lookup(B) an empty list
C10_Witness ==
  /\ script = "enrich"
  /\ pc = "done"
  /\ Len(dois) = 2
  /\ log_entries = <<<<dois[1], "SUCCESS">>, <<dois[2], "NO_METADATA">>>>
  /\ DoisOf(saved.merged) = <<dois[1]>>

\* C10, as claimed: the enrichment output holds one element per unique
\* input DOI, enriched or passed through.
C10_OneElementPerDoi ==
  (script = "enrich" /\ pc = "done") => DoisOf(saved.merged) = dois
\* the status the audit log is to give a lookup that returned result
\* ("body" or "none") and, with "body", the body
AuditStatus(result, body) ==
  IF result = "body" /\ body.hasSearchResults
  THEN IF body.hasEntry /\ body.entry # <<>> THEN "SUCCESS" ELSE "NO_METADATA"
  ELSE "FAILED"

\* C11: in the enrichment run every lookup that returns adds exactly one line
\* to the audit log, for the key looked up, in the iteration order of the
\* keys: SUCCESS when the body has a non-empty entry list under
\* search-results, NO_METADATA when that list is empty or missing, FAILED
\* when there is no body or no search-results in it; whatever the line, the
\* loop goes on with the next key, and the log written at the end of the
\* loop has one line per key.
C11_AuditLog ==
  [][script = "enrich" =>
       /\ Len(log_entries') = idx'
       /\ idx' # idx =>
            /\ idx' = idx + 1
            /\ callResult' \in {"body", "none"}
            /\ log_entries' = Append(log_entries,
                                     <<dois[idx + 1], AuditStatus(callResult', lastBody')>>)
            /\ pc' = "lookup"
       /\ idx' = idx => log_entries' = log_entries
       /\ pc' = "done" =>
            /\ saved'.log = log_entries'
            /\ [i \in DOMAIN log_entries' |-> log_entries'[i][1]] = dois]_vars

\* a failed lookup was followed by the lookup of the next key, which found
\* search-results without an entry list, and the log was written
C11_Witness ==
  /\ script = "enrich"
  /\ pc = "done"
  /\ Len(saved.log) = 2
  /\ saved.log[1][2] = "FAILED"
  /\ saved.log[2][2] = "NO_METADATA"
  /\ callResult = "body"
  /\ ~lastBody.hasEntry

\* the non-empty DOI values the input records carry
InputKeys == {original_data[i].doi : i \in DOMAIN original_data} \ {None, ""}

\* C12: in the enrichment run get_metadata_by_doi is called at most once per
\* key: never twice with the same DOI, only with non-empty DOIs of the input,
\* and, when the loop has run to its end, exactly once with each distinct
\* non-empty DOI, however many input records carry it.
C12_OncePerKey ==
  script = "enrich" =>
    /\ \A i, j \in DOMAIN lookups : lookups[i] = lookups[j] => i = j
    /\ Range(lookups) \subseteq InputKeys
    /\ pc = "done" =>
         \A d \in InputKeys : Cardinality({i \in DOMAIN lookups : lookups[i] = d}) = 1

\* two input records carry the same DOI, a third another one, and the loop
\* has run to its end with two calls
C12_Witness ==
  /\ script = "enrich"
  /\ pc = "done"
  /\ Len(original_data) = 3
  /\ original_data[1].doi = original_data[2].doi
  /\ original_data[1].doi # original_data[3].doi
  /\ InputKeys = Dois
  /\ Len(lookups) = 2

\* the run is over, by its last statement or by an exception
RunEnded == pc \in {"done", "crashed"}

\* C13: a run always writes what it has accumulated: whatever probe, page or
\* lookup failed, network errors included, when the search run, the
\* enrichment run or the Springer run is over the output file holds every
\* record accumulated before the failure.
C13_AlwaysWritten ==
  RunEnded =>
    /\ script = "search" => written /\ saved = all_results
    /\ script = "enrich" => written /\ saved.merged = merged_results
    /\ script = "springer" /\ search_results # <<>> => written /\ saved = search_results

\* the wait a 429 response asks for, in tenths of a second: its Retry-After
\* header in seconds, 30 seconds when it has none
AskedWait(header) == IF header = 0 THEN DEFAULT_RETRY_AFTER ELSE header * 10

\* C14: when a request of make_request or get_metadata_by_doi is answered
\* 429, the client waits exactly once, for the time the response asks for,
\* and stays in the call to issue the request again; the request it issues
\* then is identical to the rate-limited one; a 200 to it ends the call
\* with the body.
C14_WaitThenReissue ==
  [][LET reissued == lastStatus = 429 /\ attempts' = attempts + 1
     IN  script \in {"search", "enrich"} =>
           /\ (lastStatus' = 429) =>
                (sleeps' = <<AskedWait(lastRetryAfter')>> /\ callResult' = "pending")
           /\ reissued => (req' = req)
           /\ (reissued /\ lastStatus' = 200) => (callResult' = "body")]_vars

\* C15: the queries of the search run are the cross product of the three
\* term groups: as many as the product of the group sizes, in lexicographic
\* order with the first group varying slowest, no combination left out or
\* repeated; the n-th probe carries the n-th combination as the AND
\* conjunction of its terms, each in double quotes.
C15_QueryExpansion ==
  LET gA == groups[1]
      gB == groups[2]
      gC == groups[3]
      P == Product(gA, gB, gC)
      Nth(n) == <<gA[((n - 1) \div (Len(gB) * Len(gC))) + 1],
                  gB[(((n - 1) \div Len(gC)) % Len(gB)) + 1],
                  gC[((n - 1) % Len(gC)) + 1]>>
  IN  /\ Len(P) = Len(gA) * Len(gB) * Len(gC)
      /\ total_queries = Len(P)
      /\ \A n \in DOMAIN P : P[n] = Nth(n)
      /\ \A m, n \in DOMAIN P : P[m] = P[n] => m = n
      /\ \A i \in DOMAIN gA, j \in DOMAIN gB, k \in DOMAIN gC :
            \E n \in DOMAIN P : P[n] = <<gA[i], gB[j], gC[k]>>
      /\ processed_queries <= Len(P)
      /\ req.kind = "probe" =>
            req.query = <<"\"", Nth(processed_queries)[1], "\"", " AND ",
                          "\"", Nth(processed_queries)[2], "\"", " AND ",
                          "\"", Nth(processed_queries)[3], "\"">>

\* two terms in each group: the eighth and last query has been issued
C15_Witness ==
  /\ Len(groups[1]) = 2 /\ Len(groups[2]) = 2 /\ Len(groups[3]) = 2
  /\ processed_queries = 8
  /\ req.query = <<"\"", "trustworthy AI", "\"", " AND ", "\"", "manufacturing", "\"",
                   " AND ", "\"", "value integration", "\"">>

\* C16: in the enrichment run, whenever the lookup of a key has returned,
\* with whatever outcome, the script has slept SLEEP_BASE last, so that the
\* lookup of the next key is never issued without that delay before it.
C16_DelayAfterLookup ==
  (script = "enrich" /\ pc = "lookup" /\ ~InCall /\ idx >= 1) =>
    /\ sleeps # <<>>
    /\ sleeps[Len(sleeps)] = SLEEP_BASE_DOI
    /\ log_entries[idx][2] \in {"SUCCESS", "NO_METADATA", "FAILED"}

\* the lookup of the first of two keys failed on a 500 and the second
\* lookup is about to be issued
C16_Witness ==
  /\ script = "enrich"
  /\ pc = "lookup"
  /\ Len(dois) = 2
  /\ idx = 1
  /\ lastStatus = 500
  /\ log_entries = <<<<dois[1], "FAILED">>>>
  /\ sleeps = <<SLEEP_BASE_DOI>>

\* how often record r occurs in the list
Occurrences(r, list) == Cardinality({i \in DOMAIN list : list[i] = r})

\* C17: in the search run a record that is delivered again, with the same
\* DOI and the same content, changes nothing: a page all of whose records
\* are already in the result list leaves the list and seen_dois as they
\* were, and after any page every record of the list occurs in it once,
\* however often the same page, a later page or a later query delivered it.
C17_Redelivery ==
  [][(script = "search" /\ lastPage' # <<>>) =>
       /\ (\A i \in DOMAIN lastPage' : lastPage'[i] \in Range(all_results)) =>
            (all_results' = all_results /\ seen_dois' = seen_dois)
       /\ \A i \in DOMAIN all_results' :
            Occurrences(all_results'[i], all_results') = 1]_vars

\* a page of the second query has delivered the same record twice, and the
\* list holds it once
C17_Witness ==
  /\ script = "search"
  /\ processed_queries = 2
  /\ Len(lastPage) = 2
  /\ lastPage[1] = lastPage[2]
  /\ all_results = <<lastPage[1]>>
  /\ terminal_reason = "complete"

\* s is t with some elements left out, the others in the order of t
IsSubsequence(s, t) ==
  \E f \in [DOMAIN s -> DOMAIN t] :
    /\ \A i, j \in DOMAIN s : i < j => f[i] < f[j]
    /\ \A i \in DOMAIN s : t[f[i]] = s[i]

\* C20: the result list of the search run only grows at its end: at every
\* step the list before is a prefix of the list after, and what a page adds
\* are records of that page in the order the server returned them; so a
\* record first seen earlier precedes every record first seen later.
C20_AppendOnly ==
  [][script = "search" =>
       /\ IsPrefix(all_results, all_results')
       /\ IsSubsequence(SubSeq(all_results', Len(all_results) + 1, Len(all_results')),
                        lastPage')]_vars

\* the first page of a query delivered a record and the next page another
\* one: the list holds the two in the order they were first seen
C20_Witness ==
  /\ script = "search"
  /\ fetched = <<0, SHOW>>
  /\ Len(all_results) = 2
  /\ lastPage = <<all_results[2]>>
  /\ all_results[1] # all_results[2]

\* the search run has issued a request and is going to issue another one
BetweenRequests ==
  /\ script = "search"
  /\ req.kind # "none"
  /\ \/ pc \in {"probe", "first_page", "page"}
     \/ pc = "query" /\ processed_queries < total_queries

\* C18: in the search run a delay lies between any two consecutive HTTP
\* requests: whenever a request has been issued and another one is to come,
\* be it after a probe, a failed probe, a failed first page or the page at
\* offset 0, the script has slept since the last request.
C18_DelayBetweenRequests == BetweenRequests => sleeps # <<>>

\* how many entries at the end of the list are TRUE
RECURSIVE TrailingTrue(_)
TrailingTrue(flags) ==
  IF flags = <<>> \/ ~flags[Len(flags)] THEN 0
  ELSE 1 + TrailingTrue(SubSeq(flags, 1, Len(flags) - 1))

\* C19: when the probe of a query reports a total of 0, no page is fetched
\* for the query, the result list stays as it is, empty_streak grows by one
\* and the script sleeps SLEEP_BASE times the new streak before the next
\* query; when the probe reports a total above 0 the counter is reset to 0.
\* So the counter always is the number of queries with total 0 since the
\* last query with a total above 0.
C19_EmptyStreak ==
  [][script = "search" =>
       /\ probe_empty' # probe_empty =>
            IF probe_empty'[Len(probe_empty')]
            THEN /\ empty_streak' = empty_streak + 1
                 /\ sleeps' = <<SLEEP_BASE * empty_streak'>>
                 /\ all_results' = all_results
                 /\ fetched' = <<>>
                 /\ pc' = "query"
            ELSE empty_streak' = 0
       /\ empty_streak' = TrailingTrue(probe_empty')]_vars

\* the probes of two queries in a row have reported a total of 0
C19_Witness ==
  /\ script = "search"
  /\ probe_empty = <<TRUE, TRUE>>
  /\ empty_streak = 2
  /\ sleeps = <<2 * SLEEP_BASE>>
  /\ all_results = <<>>

\* the position of the first input record that carries the DOI
FirstCarrier(doi) ==
  CHOOSE i \in DOMAIN original_data :
    /\ original_data[i].doi = doi
    /\ \A j \in 1..(i - 1) : original_data[j].doi # doi

\* C21: when a lookup has returned a body whose entry list holds one or more
\* entries, the element merged last is the triple of the DOI looked up, the
\* first input record that carries this DOI and the first entry of the
\* list; and every merged element holds the first input record of its DOI,
\* so later records with the DOI and later entries are ignored.
C21_MergedTriple ==
  script = "enrich" =>
    /\ \A k \in DOMAIN merged_results :
         /\ merged_results[k].doi \in Range(dois)
         /\ merged_results[k].original = original_data[FirstCarrier(merged_results[k].doi)]
    /\ (callResult = "body" /\ lastBody.hasSearchResults /\ lastBody.entry # <<>>) =>
         /\ merged_results # <<>>
         /\ merged_results[Len(merged_results)] =
              [doi |-> dois[idx],
               original |-> original_data[FirstCarrier(dois[idx])],
               metadata |-> lastBody.entry[1]]

\* two input records carry the DOI with different contents and the lookup
\* returned two different entries: the merged element holds the first of each
C21_Witness ==
  /\ script = "enrich"
  /\ Len(original_data) >= 2
  /\ original_data[1].doi = original_data[2].doi
  /\ original_data[1] # original_data[2]
  /\ callResult = "body"
  /\ Len(lastBody.entry) = 2
  /\ lastBody.entry[1] # lastBody.entry[2]
  /\ merged_results = <<[doi |-> original_data[1].doi, original |-> original_data[1],
                         metadata |-> lastBody.entry[1]]>>

Requested == Len(fetched) * SHOW

\* C23, as amended: the records requested for one query stay below the cap
\* plus one page, and within the cap when the cap is a multiple of the page
\* size, whatever total the probe reported.
C23_CapRoundedUp ==
  script = "search" =>
    /\ Requested < MAX_RESULTS_PER_QUERY + SHOW
    /\ MAX_RESULTS_PER_QUERY % SHOW = 0 => Requested <= MAX_RESULTS_PER_QUERY

\* page size 2, cap 3, a total above the cap: the pages at 0 and 2 were
\* fetched, four records asked for
C23_Witness ==
  /\ script = "search"
  /\ SHOW = 2
  /\ MAX_RESULTS_PER_QUERY = 3
  /\ total_results = 4
  /\ fetched = <<0, 2>>
  /\ terminal_reason = "complete"

\* C23: the records requested for one query never exceed the cap, also
\* when the cap is not a multiple of the page size.
C23_CapIsHardBound == script = "search" => Requested <= MAX_RESULTS_PER_QUERY

\* C24: at every point of the search run seen_dois is exactly the set of
\* the DOIs of the records of all_results, and all_results has as many
\* records as seen_dois has DOIs, whichever step was taken last.
C24_SeenIsDoisOfResults ==
  script = "search" =>
    /\ seen_dois = {all_results[i].doi : i \in DOMAIN all_results}
    /\ Len(all_results) = Cardinality(seen_dois)

\* the first query put two records in the list and the probe of the second
\* query failed
C24_Witness ==
  /\ script = "search"
  /\ processed_queries = 2
  /\ terminal_reason = "probe_failed"
  /\ Len(all_results) = 2
  /\ Cardinality(seen_dois) = 2

\* C25: one call of get_metadata_by_doi issues between 1 and MAX_RETRIES
\* requests and always returns: the body at the first 200, None at once at
\* the first answer that is neither 200 nor 429, None after MAX_RETRIES
\* requests of which none was answered 200.
C25_LookupReturns ==
  (script = "enrich" /\ req.kind = "lookup") =>
    /\ attempts \in 1..MAX_RETRIES
    /\ callResult \in {"pending", "body", "none"}
    /\ lastStatus = 200 => callResult = "body"
    /\ lastStatus \notin {200, 429} => callResult = "none"
    /\ lastStatus = 429 =>
         IF attempts = MAX_RETRIES THEN callResult = "none" ELSE callResult = "pending"

====
